---------------------------- MODULE Spec2Model ----------------------------
(***************************************************************************)
(* Model of the OCR service: the batch endpoint extract_batch              *)
(* (app/api/ocr_routes.py), the orchestrator process_file                  *)
(* (app/services/ocr_service.py) and the retention store                   *)
(* (app/services/file_service.py).                                         *)
(*                                                                         *)
(* Representation.                                                         *)
(*  - A Python str is a sequence of one-character strings, so that         *)
(*    rsplit, lower, strip, Path.name and re.sub are computed on the       *)
(*    characters.                                                          *)
(*  - An Optional value is a sequence of length 0 (None) or 1.             *)
(*  - A bytes value is a record [id, len, corrupt, doc]: len is len(b),    *)
(*    id stands for the byte content itself, corrupt says whether the      *)
(*    decoding library raises on it, doc is what it decodes to.            *)
(*  - job_id (uuid4) and processing_time_ms (wall clock) are left out of   *)
(*    the response: they differ from one call to the next by construction. *)
(***************************************************************************)
EXTENDS Integers, Sequences, FiniteSets, TLC

VARIABLES
    ZERO_RETENTION_DEFAULT, \* settings.ZERO_RETENTION_DEFAULT
    store,          \* the upload directory: sanitized name -> Optional bytes
    denied,         \* sanitized names whose path refuses write and unlink
    pc,             \* position of the extract_batch handler
    files,          \* the request's uploads, in order
    zero_retention, \* the request's optional override token
    zr,             \* the effective retention flag
    seen_names,     \* extract_batch: seen_names
    seen_hashes,    \* extract_batch: seen_hashes
    results,        \* extract_batch: results
    next_file,      \* extract_batch: position of the for loop in files
    last,           \* the most recent process_file call and its outcome
    recent          \* history: per sanitized name, the most recent successful run

vars == <<ZERO_RETENTION_DEFAULT, store, denied, pc, files, zero_retention, zr,
          seen_names, seen_hashes, results, next_file, last, recent>>

None == <<>>

Some(x) == <<x>>

Range(s) == {s[i] : i \in 1..Len(s)}

-----------------------------------------------------------------------------
(* Strings *)

Str_a_pdf == <<"a", ".", "p", "d", "f">>
Str_b_PNG == <<"b", ".", "P", "N", "G">>
Str_c_xyz == <<"c", ".", "x", "y", "z">>
Str_C_XYZ == <<"C", ".", "X", "Y", "Z">>
Str_a_docx == <<"a", "_", ".", "d", "o", "c", "x">>
Str_d_bad_docx == <<"d", "/", "a", "#", "?", ".", "d", "o", "c", "x">>
Str_document == <<"d", "o", "c", "u", "m", "e", "n", "t">>
Str_unknown == <<"u", "n", "k", "n", "o", "w", "n">>

LowerCase == {"a", "b", "c", "d", "e", "f", "g", "h", "i", "j", "k", "l", "m",
              "n", "o", "p", "q", "r", "s", "t", "u", "v", "w", "x", "y", "z"}

UpperCase == {"A", "B", "C", "D", "E", "F", "G", "H", "I", "J", "K", "L", "M",
              "N", "O", "P", "Q", "R", "S", "T", "U", "V", "W", "X", "Y", "Z"}

Digits == {"0", "1", "2", "3", "4", "5", "6", "7", "8", "9"}

Whitespace == {" ", "\t", "\n"}

\* str.lower() on one character.
LowerChar(c) ==
    CASE c = "A" -> "a" [] c = "B" -> "b" [] c = "C" -> "c" [] c = "D" -> "d"
      [] c = "E" -> "e" [] c = "F" -> "f" [] c = "G" -> "g" [] c = "H" -> "h"
      [] c = "I" -> "i" [] c = "J" -> "j" [] c = "K" -> "k" [] c = "L" -> "l"
      [] c = "M" -> "m" [] c = "N" -> "n" [] c = "O" -> "o" [] c = "P" -> "p"
      [] c = "Q" -> "q" [] c = "R" -> "r" [] c = "S" -> "s" [] c = "T" -> "t"
      [] c = "U" -> "u" [] c = "V" -> "v" [] c = "W" -> "w" [] c = "X" -> "x"
      [] c = "Y" -> "y" [] c = "Z" -> "z" [] OTHER -> c

\* str.lower()
Lower(s) == [i \in 1..Len(s) |-> LowerChar(s[i])]

RECURSIVE LStrip(_)
LStrip(s) ==
    IF s # <<>> /\ Head(s) \in Whitespace THEN LStrip(Tail(s)) ELSE s

RECURSIVE RStrip(_)
RStrip(s) ==
    IF s # <<>> /\ s[Len(s)] \in Whitespace
    THEN RStrip(SubSeq(s, 1, Len(s) - 1))
    ELSE s

\* str.strip()
Strip(s) == RStrip(LStrip(s))

\* The index of the last occurrence of c in s, 0 when there is none.
LastIndex(s, c) ==
    LET at == {i \in 1..Len(s) : s[i] = c}
    IN  IF at = {} THEN 0 ELSE CHOOSE i \in at : \A j \in at : j <= i

\* s.rsplit(c, 1)[-1]
AfterLast(s, c) == SubSeq(s, LastIndex(s, c) + 1, Len(s))

-----------------------------------------------------------------------------
(* Configuration: app/core/config.py *)

\* settings.MAX_DOCS_PER_BATCH: a deployment setting read from the
\* environment (default 20), here a small ceiling.
MAX_DOCS_PER_BATCH == 3

\* settings.MAX_FILE_SIZE_MB (default)
MAX_FILE_SIZE_MB == 20

\* max_bytes = settings.MAX_FILE_SIZE_MB * 1024 * 1024
max_bytes == MAX_FILE_SIZE_MB * 1024 * 1024

-----------------------------------------------------------------------------
(* Retention store: app/services/file_service.py *)

\* The components of a POSIX path: split on "/", empty and "." components
\* dropped, as pathlib does when it parses the path.
RECURSIVE PathParts(_, _)
PathParts(s, cur) ==
    LET keep == IF cur = <<>> \/ cur = <<".">> THEN <<>> ELSE <<cur>>
    IN  IF s = <<>> THEN keep
        ELSE IF Head(s) = "/" THEN keep \o PathParts(Tail(s), <<>>)
        ELSE PathParts(Tail(s), Append(cur, Head(s)))

\* Path(filename).name
PathName(filename) ==
    LET parts == PathParts(filename, <<>>)
    IN  IF parts = <<>> THEN <<>> ELSE parts[Len(parts)]

\* The character class [a-zA-Z0-9._ -]
SafeChars == LowerCase \cup UpperCase \cup Digits \cup {".", "_", " ", "-"}

RECURSIVE SkipUnsafe(_)
SkipUnsafe(s) ==
    IF s # <<>> /\ Head(s) \notin SafeChars THEN SkipUnsafe(Tail(s)) ELSE s

\* re.sub(r"[^a-zA-Z0-9._ -]+", "_", name): each maximal run of characters
\* outside the class becomes one "_".
RECURSIVE ReSubUnsafe(_)
ReSubUnsafe(s) ==
    IF s = <<>> THEN <<>>
    ELSE IF Head(s) \in SafeChars THEN <<Head(s)>> \o ReSubUnsafe(Tail(s))
    ELSE <<"_">> \o ReSubUnsafe(SkipUnsafe(s))

sanitize_filename(filename) ==
    LET name == Strip(ReSubUnsafe(PathName(filename)))
    IN  IF name = <<>> THEN Str_document ELSE name

\* Mutant: an existing file of the same name is kept instead of overwritten.
save_unique_by_name_KeepsFirst(filename, file_bytes, st, den) ==
    LET safe == sanitize_filename(filename)
    IN  IF safe \in den
        THEN [raised |-> TRUE, store |-> st]
        ELSE IF st[safe] # None
        THEN [raised |-> FALSE, store |-> st]
        ELSE [raised |-> FALSE, store |-> [st EXCEPT ![safe] = Some(file_bytes)]]

\* save_unique_by_name: path.write_bytes(file_bytes). Returns the store after
\* the call and whether the call raised (write_bytes is not guarded).
save_unique_by_name(filename, file_bytes, st, den) ==
    LET safe == sanitize_filename(filename)
    IN  IF safe \in den
        THEN [raised |-> TRUE, store |-> st]
        ELSE [raised |-> FALSE, store |-> [st EXCEPT ![safe] = Some(file_bytes)]]

\* delete_if_exists: path.unlink(missing_ok=True) inside try/except: pass.
delete_if_exists(filename, st, den) ==
    LET safe == sanitize_filename(filename)
    IN  IF safe \in den
        THEN [raised |-> FALSE, store |-> st]
        ELSE [raised |-> FALSE, store |-> [st EXCEPT ![safe] = None]]

-----------------------------------------------------------------------------
(* Format extractors: app/services/ocr_service.py *)

Ext_pdf == <<"p", "d", "f">>
Ext_docx == <<"d", "o", "c", "x">>
ImageExts == {<<"j", "p", "g">>, <<"j", "p", "e", "g">>, <<"p", "n", "g">>,
              <<"b", "m", "p">>, <<"t", "i", "f">>, <<"t", "i", "f", "f">>}

\* "\n".join / "\n\n".join: texts are sequences of tokens, sep is a token.
RECURSIVE Join(_, _)
Join(sep, texts) ==
    IF texts = <<>> THEN <<>>
    ELSE IF Len(texts) = 1 THEN texts[1]
    ELSE texts[1] \o <<sep>> \o Join(sep, Tail(texts))

\* [x for x in s if keep]
RECURSIVE NonBlank(_)
NonBlank(texts) ==
    IF texts = <<>> THEN <<>>
    ELSE IF Head(texts) = <<>> THEN NonBlank(Tail(texts))
    ELSE <<Head(texts)>> \o NonBlank(Tail(texts))

\* extract_from_pdf: per page, the text layer when it is not empty, else the
\* OCR of the rendered page.
extract_from_pdf(file_bytes) ==
    [i \in 1..Len(file_bytes.doc) |->
        [page_number |-> i,
         text |-> IF file_bytes.doc[i].layer # <<>>
                  THEN file_bytes.doc[i].layer
                  ELSE file_bytes.doc[i].ocr]]

\* extract_from_image: one page, the OCR of the image.
extract_from_image(file_bytes) ==
    <<[page_number |-> 1, text |-> file_bytes.doc[1].ocr]>>

\* extract_from_docx: one page, the non-blank paragraphs joined by "\n".
extract_from_docx(file_bytes) ==
    <<[page_number |-> 1,
       text |-> Join("\n", NonBlank([i \in 1..Len(file_bytes.doc) |->
                                        file_bytes.doc[i].layer]))]>>

\* ext = filename.rsplit(".", 1)[-1].lower() if "." in filename else ""
Ext(filename) ==
    IF "." \in Range(filename) THEN Lower(AfterLast(filename, ".")) ELSE <<>>

Supported(ext) == ext = Ext_pdf \/ ext \in ImageExts \/ ext = Ext_docx

\* The if/elif dispatch of process_file; called for a supported ext.
Extract(ext, file_bytes) ==
    IF ext = Ext_pdf THEN extract_from_pdf(file_bytes)
    ELSE IF ext \in ImageExts THEN extract_from_image(file_bytes)
    ELSE extract_from_docx(file_bytes)

\* Mutant: the retention policy is applied before the extension is resolved.
process_file_StoreFirst(file_bytes, filename, document_type, zero_retention_arg, st, den, dflt) ==
    LET zero_ret == IF zero_retention_arg = None THEN dflt ELSE zero_retention_arg[1]
        ext == Ext(filename)
        kept == IF ~zero_ret
                THEN save_unique_by_name(filename, file_bytes, st, den)
                ELSE delete_if_exists(filename, st, den)
    IN  IF kept.raised
        THEN [ok |-> FALSE, response |-> None, store |-> kept.store,
              error |-> Some(<<"PermissionError">>)]
        ELSE IF ~Supported(ext)
        THEN [ok |-> FALSE, response |-> None, store |-> kept.store,
              error |-> Some(<<"Unsupported file type: .">>
                             \o (IF ext = <<>> THEN Str_unknown ELSE ext))]
        ELSE IF file_bytes.corrupt
        THEN [ok |-> FALSE, response |-> None, store |-> kept.store,
              error |-> Some(<<"cannot decode">>)]
        ELSE
          LET pages == Extract(ext, file_bytes)
              full_text == Join("\n\n", [i \in 1..Len(pages) |-> pages[i].text])
          IN  [ok |-> TRUE, error |-> None, store |-> kept.store,
               response |-> Some(
                   [status |-> "success",
                    document_type |-> document_type,
                    pages |-> pages,
                    full_text |-> full_text,
                    metadata |-> [file_name |-> filename,
                                  file_type |-> ext,
                                  num_pages |-> Len(pages),
                                  engine |-> "tesseract",
                                  zero_retention |-> zero_ret]])]

\* process_file. st and den are the upload directory and its refused paths
\* when the call starts; the result carries the directory after the call.
\* A raised exception is ok = FALSE with its message.
process_file(file_bytes, filename, document_type, zero_retention_arg, st, den, dflt) ==
    LET zero_ret == IF zero_retention_arg = None THEN dflt ELSE zero_retention_arg[1]
        ext == Ext(filename)
    IN  IF ~Supported(ext)
        THEN [ok |-> FALSE, response |-> None, store |-> st,
              error |-> Some(<<"Unsupported file type: .">>
                             \o (IF ext = <<>> THEN Str_unknown ELSE ext))]
        ELSE IF file_bytes.corrupt
        THEN [ok |-> FALSE, response |-> None, store |-> st,
              error |-> Some(<<"cannot decode">>)]
        ELSE
          LET pages == Extract(ext, file_bytes)
              full_text == Join("\n\n", [i \in 1..Len(pages) |-> pages[i].text])
              kept == IF ~zero_ret
                      THEN save_unique_by_name(filename, file_bytes, st, den)
                      ELSE delete_if_exists(filename, st, den)
          IN  IF kept.raised
              THEN [ok |-> FALSE, response |-> None, store |-> kept.store,
                    error |-> Some(<<"PermissionError">>)]
              ELSE [ok |-> TRUE, error |-> None, store |-> kept.store,
                    response |-> Some(
                        [status |-> "success",
                         document_type |-> document_type,
                         pages |-> pages,
                         full_text |-> full_text,
                         metadata |-> [file_name |-> filename,
                                       file_type |-> ext,
                                       num_pages |-> Len(pages),
                                       engine |-> "tesseract",
                                       zero_retention |-> zero_ret]])]

-----------------------------------------------------------------------------
(* Inputs *)

\* Decodable bytes of three units (the pages of a PDF, the paragraphs of a
\* DOCX), the second without text of its own; an image is its first unit.
BytesX == [id |-> "x", len |-> 7, corrupt |-> FALSE,
           doc |-> <<[layer |-> <<"Lx1">>, ocr |-> <<"Ox1">>],
                     [layer |-> <<>>, ocr |-> <<"Ox2">>],
                     [layer |-> <<"Lx3">>, ocr |-> <<"Ox3">>]>>]

\* Undecodable bytes, of exactly the size ceiling.
BytesY == [id |-> "y", len |-> max_bytes, corrupt |-> TRUE, doc |-> <<>>]

BytesZ == [id |-> "z", len |-> 9, corrupt |-> FALSE,
           doc |-> <<[layer |-> <<"Lz1">>, ocr |-> <<"Oz1">>]>>]

BytesEmpty == [id |-> "", len |-> 0, corrupt |-> TRUE, doc |-> <<>>]

\* One byte over the size ceiling.
BytesBig == [id |-> "big", len |-> max_bytes + 1, corrupt |-> FALSE,
             doc |-> <<[layer |-> <<"Lb1">>, ocr |-> <<"Ob1">>]>>]

\* Filenames given to process_file directly: two that sanitize to the same
\* path, two of an unsupported extension, one without extension.
CallNames == {Str_a_docx, Str_d_bad_docx, Str_c_xyz, Str_C_XYZ, Str_document}

CallBytes == {BytesX, BytesY, BytesZ}

\* The uploads a request is made of.
Uploads ==
    {[filename |-> Str_a_pdf, contents |-> BytesX],
     [filename |-> Str_a_pdf, contents |-> BytesY],
     [filename |-> Str_b_PNG, contents |-> BytesX],
     [filename |-> Str_b_PNG, contents |-> BytesZ],
     [filename |-> Str_c_xyz, contents |-> BytesZ],
     [filename |-> <<>>, contents |-> BytesEmpty],
     [filename |-> Str_a_pdf, contents |-> BytesBig]}

\* Filenames of uploads; <<>> is an upload without a filename.
UploadNames == {u.filename : u \in Uploads}

\* Every path of the upload directory the inputs can name.
StorePaths ==
    {sanitize_filename(n) : n \in CallNames}
    \cup {sanitize_filename(IF n = <<>> THEN Str_document ELSE n) : n \in UploadNames}

EmptyStore == [p \in StorePaths |-> None]

\* The paths the environment may make refuse write and unlink.
RefusablePaths == {sanitize_filename(Str_a_docx)}

NoCall == [called |-> FALSE, file_bytes |-> BytesEmpty, filename |-> <<>>,
           zero_retention |-> None, ok |-> FALSE, response |-> None,
           error |-> None]

-----------------------------------------------------------------------------
(* Direct calls of process_file on a shared upload directory *)

InitStore ==
    /\ ZERO_RETENTION_DEFAULT \in BOOLEAN
    /\ store \in {EmptyStore,
                  [EmptyStore EXCEPT ![sanitize_filename(Str_c_xyz)] = Some(BytesZ)]}
    /\ denied = {}
    /\ pc = "idle"
    /\ files = <<>>
    /\ zero_retention = None
    /\ zr = ZERO_RETENTION_DEFAULT
    /\ seen_names = {}
    /\ seen_hashes = {}
    /\ results = <<>>
    /\ next_file = 1
    /\ last = NoCall
    /\ recent = [p \in StorePaths |-> None]

\* One call process_file(b, n, "generic", zero_retention=z).
ProcessFileCall ==
    \E b \in CallBytes, n \in CallNames, z \in {None, Some(TRUE), Some(FALSE)} :
        LET r == process_file(b, n, "generic", z, store, denied, ZERO_RETENTION_DEFAULT)
            safe == sanitize_filename(n)
            zero_ret == IF z = None THEN ZERO_RETENTION_DEFAULT ELSE z[1]
        IN  /\ store' = r.store
            /\ last' = [called |-> TRUE, file_bytes |-> b, filename |-> n,
                        zero_retention |-> z, ok |-> r.ok,
                        response |-> r.response, error |-> r.error]
            /\ recent' = IF r.ok
                         THEN [recent EXCEPT ![safe] =
                                  Some([zero_retention |-> zero_ret,
                                        file_bytes |-> b,
                                        unlink_failed |-> zero_ret /\ safe \in denied])]
                         ELSE recent
            /\ UNCHANGED <<ZERO_RETENTION_DEFAULT, denied, pc, files,
                           zero_retention, zr, seen_names, seen_hashes, results,
                           next_file>>

\* The environment makes a path of the upload directory refuse write and
\* unlink (permission denied), or accept them again.
SetPermission ==
    \E p \in RefusablePaths :
        /\ denied' = IF p \in denied THEN denied \ {p} ELSE denied \cup {p}
        /\ UNCHANGED <<ZERO_RETENTION_DEFAULT, store, pc, files, zero_retention,
                       zr, seen_names, seen_hashes, results, next_file, last,
                       recent>>

NextStore == ProcessFileCall \/ SetPermission

SpecStore == InitStore /\ [][NextStore]_vars

-----------------------------------------------------------------------------
(* The batch endpoint: app/api/ocr_routes.py *)

\* sha256_bytes: the digest stands for the content, one digest per content.
sha256_bytes(data) == <<"sha256", data.id>>

TruthyTokens == {<<"1">>, <<"t", "r", "u", "e">>, <<"y", "e", "s">>, <<"y">>,
                 <<"o", "n">>}

\* Mutant: the token is lowered but not stripped.
parse_bool_NoStrip(val, default) ==
    IF val = None THEN default ELSE Lower(val[1]) \in TruthyTokens

parse_bool(val, default) ==
    IF val = None THEN default ELSE Lower(Strip(val[1])) \in TruthyTokens

\* OCRBatchItem(filename=..., file_hash=..., skipped_duplicate=False,
\*              reason=None, response=None, error=None)
OCRBatchItem(filename, file_hash, skipped_duplicate, reason, response, error) ==
    [filename |-> filename, file_hash |-> file_hash,
     skipped_duplicate |-> skipped_duplicate, reason |-> reason,
     response |-> response, error |-> error]

\* filename = f.filename or "document"
Filename(f) == IF f.filename = <<>> THEN Str_document ELSE f.filename

\* Mutant: the filename and hash are recorded only after process_file returned.
batch_file_RecordsAfterSuccess(f, document_type, zero_ret, names, hashes, st, den) ==
    LET filename == Filename(f)
        contents == f.contents
        h == sha256_bytes(contents)
        out(item, ns, hs, s) ==
            [item |-> item, seen_names |-> ns, seen_hashes |-> hs, store |-> s]
    IN  IF contents.len = 0
        THEN out(OCRBatchItem(filename, <<>>, FALSE, None, None,
                              Some(<<"Empty file">>)),
                 names, hashes, st)
        ELSE IF contents.len > max_bytes
        THEN out(OCRBatchItem(filename, <<>>, FALSE, None, None,
                              Some(<<"File exceeds max size of 20 MB">>)),
                 names, hashes, st)
        ELSE IF filename \in names
        THEN out(OCRBatchItem(filename, <<>>, TRUE,
                              Some("duplicate_filename_in_batch"), None, None),
                 names, hashes, st)
        ELSE IF h \in hashes
        THEN out(OCRBatchItem(filename, h, TRUE,
                              Some("duplicate_content_in_batch"), None, None),
                 names \cup {filename}, hashes, st)
        ELSE
          LET resp == process_file(contents, filename, document_type,
                                   Some(zero_ret), st, den, zero_ret)
          IN  IF resp.ok
              THEN out(OCRBatchItem(filename, h, FALSE, None, resp.response, None),
                       names \cup {filename}, hashes \cup {h}, resp.store)
              ELSE out(OCRBatchItem(filename, <<>>, FALSE, None, None, resp.error),
                       names, hashes, resp.store)

\* Mutant: the content is hashed and recorded before the filename check.
batch_file_HashFirst(f, document_type, zero_ret, names, hashes, st, den) ==
    LET filename == Filename(f)
        contents == f.contents
        h == sha256_bytes(contents)
        out(item, ns, hs, s) ==
            [item |-> item, seen_names |-> ns, seen_hashes |-> hs, store |-> s]
    IN  IF contents.len = 0
        THEN out(OCRBatchItem(filename, <<>>, FALSE, None, None,
                              Some(<<"Empty file">>)),
                 names, hashes, st)
        ELSE IF contents.len > max_bytes
        THEN out(OCRBatchItem(filename, <<>>, FALSE, None, None,
                              Some(<<"File exceeds max size of 20 MB">>)),
                 names, hashes, st)
        ELSE IF filename \in names
        THEN out(OCRBatchItem(filename, <<>>, TRUE,
                              Some("duplicate_filename_in_batch"), None, None),
                 names, hashes \cup {h}, st)
        ELSE IF h \in hashes
        THEN out(OCRBatchItem(filename, h, TRUE,
                              Some("duplicate_content_in_batch"), None, None),
                 names \cup {filename}, hashes, st)
        ELSE
          LET resp == process_file(contents, filename, document_type,
                                   Some(zero_ret), st, den, zero_ret)
          IN  IF resp.ok
              THEN out(OCRBatchItem(filename, h, FALSE, None, resp.response, None),
                       names \cup {filename}, hashes \cup {h}, resp.store)
              ELSE out(OCRBatchItem(filename, <<>>, FALSE, None, None, resp.error),
                       names \cup {filename}, hashes \cup {h}, resp.store)

\* Mutant: seen_hashes.add(h) is missing.
batch_file_ForgetsHash(f, document_type, zero_ret, names, hashes, st, den) ==
    LET filename == Filename(f)
        contents == f.contents
        h == sha256_bytes(contents)
        out(item, ns, hs, s) ==
            [item |-> item, seen_names |-> ns, seen_hashes |-> hs, store |-> s]
    IN  IF contents.len = 0
        THEN out(OCRBatchItem(filename, <<>>, FALSE, None, None,
                              Some(<<"Empty file">>)),
                 names, hashes, st)
        ELSE IF contents.len > max_bytes
        THEN out(OCRBatchItem(filename, <<>>, FALSE, None, None,
                              Some(<<"File exceeds max size of 20 MB">>)),
                 names, hashes, st)
        ELSE IF filename \in names
        THEN out(OCRBatchItem(filename, <<>>, TRUE,
                              Some("duplicate_filename_in_batch"), None, None),
                 names, hashes, st)
        ELSE IF h \in hashes
        THEN out(OCRBatchItem(filename, h, TRUE,
                              Some("duplicate_content_in_batch"), None, None),
                 names \cup {filename}, hashes, st)
        ELSE
          LET resp == process_file(contents, filename, document_type,
                                   Some(zero_ret), st, den, zero_ret)
          IN  IF resp.ok
              THEN out(OCRBatchItem(filename, h, FALSE, None, resp.response, None),
                       names \cup {filename}, hashes, resp.store)
              ELSE out(OCRBatchItem(filename, <<>>, FALSE, None, None, resp.error),
                       names \cup {filename}, hashes, resp.store)

\* One iteration of the for loop of extract_batch on upload f: the item it
\* appends, and seen_names, seen_hashes and the upload directory after it.
batch_file(f, document_type, zero_ret, names, hashes, st, den) ==
    LET filename == Filename(f)
        contents == f.contents
        h == sha256_bytes(contents)
        out(item, ns, hs, s) ==
            [item |-> item, seen_names |-> ns, seen_hashes |-> hs, store |-> s]
    IN  IF contents.len = 0
        THEN out(OCRBatchItem(filename, <<>>, FALSE, None, None,
                              Some(<<"Empty file">>)),
                 names, hashes, st)
        ELSE IF contents.len > max_bytes
        THEN out(OCRBatchItem(filename, <<>>, FALSE, None, None,
                              Some(<<"File exceeds max size of 20 MB">>)),
                 names, hashes, st)
        ELSE IF filename \in names
        THEN out(OCRBatchItem(filename, <<>>, TRUE,
                              Some("duplicate_filename_in_batch"), None, None),
                 names, hashes, st)
        ELSE IF h \in hashes
        THEN out(OCRBatchItem(filename, h, TRUE,
                              Some("duplicate_content_in_batch"), None, None),
                 names \cup {filename}, hashes, st)
        ELSE
          LET resp == process_file(contents, filename, document_type,
                                   Some(zero_ret), st, den, zero_ret)
          IN  IF resp.ok
              THEN out(OCRBatchItem(filename, h, FALSE, None, resp.response, None),
                       names \cup {filename}, hashes \cup {h}, resp.store)
              ELSE out(OCRBatchItem(filename, <<>>, FALSE, None, None, resp.error),
                       names \cup {filename}, hashes \cup {h}, resp.store)

\* The for loop of extract_batch from position k on: the results it returns.
RECURSIVE batch_loop(_, _, _, _, _, _, _, _)
batch_loop(fs, k, document_type, zero_ret, names, hashes, st, den) ==
    IF k > Len(fs) THEN <<>>
    ELSE LET r == batch_file(fs[k], document_type, zero_ret, names, hashes, st, den)
         IN  <<r.item>> \o batch_loop(fs, k + 1, document_type, zero_ret,
                                      r.seen_names, r.seen_hashes, r.store, den)

\* The requests: one upload up to one more than the batch ceiling.
RECURSIVE SeqsOfLen(_, _)
SeqsOfLen(S, n) ==
    IF n = 0 THEN {<<>>}
    ELSE {Append(q, x) : q \in SeqsOfLen(S, n - 1), x \in S}

Requests == UNION {SeqsOfLen(Uploads, n) : n \in 1..(MAX_DOCS_PER_BATCH + 1)}

\* The override tokens a batch request carries.
BatchTokens == {None, Some(<<"o", "n">>)}

Init ==
    /\ ZERO_RETENTION_DEFAULT \in BOOLEAN
    /\ store = EmptyStore
    /\ denied = {}
    /\ pc = "idle"
    /\ files = <<>>
    /\ zero_retention = None
    /\ zr = ZERO_RETENTION_DEFAULT
    /\ seen_names = {}
    /\ seen_hashes = {}
    /\ results = <<>>
    /\ next_file = 1
    /\ last = NoCall
    /\ recent = [p \in StorePaths |-> None]

\* Mutant: a request of exactly the ceiling is rejected too (>= for >).
ReceiveBatch_AtCeiling ==
    /\ pc = "idle"
    /\ \E fs \in Requests, token \in BatchTokens :
        /\ files' = fs
        /\ zero_retention' = token
        /\ zr' = parse_bool(token, ZERO_RETENTION_DEFAULT)
        /\ pc' = IF Len(fs) >= MAX_DOCS_PER_BATCH THEN "rejected" ELSE "running"
    /\ seen_names' = {}
    /\ seen_hashes' = {}
    /\ results' = <<>>
    /\ next_file' = 1
    /\ UNCHANGED <<ZERO_RETENTION_DEFAULT, store, denied, last, recent>>

\* extract_batch up to the for loop: the flag is parsed, a request over the
\* ceiling raises HTTPException(400), any other starts the loop.
ReceiveBatch ==
    /\ pc = "idle"
    /\ \E fs \in Requests, token \in BatchTokens :
        /\ files' = fs
        /\ zero_retention' = token
        /\ zr' = parse_bool(token, ZERO_RETENTION_DEFAULT)
        /\ pc' = IF Len(fs) > MAX_DOCS_PER_BATCH THEN "rejected" ELSE "running"
    /\ seen_names' = {}
    /\ seen_hashes' = {}
    /\ results' = <<>>
    /\ next_file' = 1
    /\ UNCHANGED <<ZERO_RETENTION_DEFAULT, store, denied, last, recent>>

\* Mutant: a skipped duplicate continues the loop without appending an item.
ProcessNextFile_DropsDuplicates ==
    /\ pc = "running"
    /\ next_file <= Len(files)
    /\ LET r == batch_file(files[next_file], "generic", zr, seen_names,
                           seen_hashes, store, denied)
       IN  /\ results' = IF r.item.skipped_duplicate
                         THEN results
                         ELSE Append(results, r.item)
           /\ seen_names' = r.seen_names
           /\ seen_hashes' = r.seen_hashes
           /\ store' = r.store
    /\ next_file' = next_file + 1
    /\ UNCHANGED <<ZERO_RETENTION_DEFAULT, denied, pc, files, zero_retention,
                   zr, last, recent>>

\* One iteration of the for loop.
ProcessNextFile ==
    /\ pc = "running"
    /\ next_file <= Len(files)
    /\ LET r == batch_file(files[next_file], "generic", zr, seen_names,
                           seen_hashes, store, denied)
       IN  /\ results' = Append(results, r.item)
           /\ seen_names' = r.seen_names
           /\ seen_hashes' = r.seen_hashes
           /\ store' = r.store
    /\ next_file' = next_file + 1
    /\ UNCHANGED <<ZERO_RETENTION_DEFAULT, denied, pc, files, zero_retention,
                   zr, last, recent>>

\* return OCRBatchResponse(status="success", ..., zero_retention=zr,
\*                         results=results)
ReturnBatch ==
    /\ pc = "running"
    /\ next_file > Len(files)
    /\ pc' = "done"
    /\ UNCHANGED <<ZERO_RETENTION_DEFAULT, store, denied, files, zero_retention,
                   zr, seen_names, seen_hashes, results, next_file, last,
                   recent>>

Next == ReceiveBatch \/ ProcessNextFile \/ ReturnBatch

Spec == Init /\ [][Next]_vars

-----------------------------------------------------------------------------
(* The retention override alone: parse_bool on a token *)

\* The longest generated token.
MaxTokenLen == 3

TokenChars == {"y", "Y", " ", "0"}

\* The override tokens: the recognized ones, some variants of case and
\* padding, some others, and every short string over TokenChars.
Tokens ==
    {<<"1">>, <<"t", "r", "u", "e">>, <<"y", "e", "s">>, <<"y">>, <<"o", "n">>,
     <<" ", "T", "r", "u", "E", "\n">>, <<"\t", "O", "N">>, <<"Y", "E", "S", " ">>,
     <<>>, <<"f", "a", "l", "s", "e">>, <<"n", "o">>, <<"o", "f", "f">>,
     <<"t", "r", "u", "e", "!">>, <<"t", " ", "r", "u", "e">>, <<"2">>}
    \cup UNION {SeqsOfLen(TokenChars, n) : n \in 1..MaxTokenLen}

InitParse ==
    /\ ZERO_RETENTION_DEFAULT \in BOOLEAN
    /\ store = EmptyStore
    /\ denied = {}
    /\ pc = "idle"
    /\ files = <<>>
    /\ zero_retention = None
    /\ zr = ZERO_RETENTION_DEFAULT
    /\ seen_names = {}
    /\ seen_hashes = {}
    /\ results = <<>>
    /\ next_file = 1
    /\ last = NoCall
    /\ recent = [p \in StorePaths |-> None]

\* zr = parse_bool(zero_retention, settings.ZERO_RETENTION_DEFAULT) on the
\* form field of a request: absent, or a token.
ParseRetention ==
    \E token \in {None} \cup {Some(t) : t \in Tokens} :
        /\ zero_retention' = token
        /\ zr' = parse_bool(token, ZERO_RETENTION_DEFAULT)
        /\ pc' = "parsed"
        /\ UNCHANGED <<ZERO_RETENTION_DEFAULT, store, denied, files, seen_names,
                       seen_hashes, results, next_file, last, recent>>

NextParse == ParseRetention

SpecParse == InitParse /\ [][NextParse]_vars

-----------------------------------------------------------------------------
(* Claims on the batch endpoint (Spec) *)

Started == pc \in {"running", "done"}

\* Upload k of the request is not empty and within the size ceiling: it
\* reaches the duplicate-by-name check.
ReachedNameCheck(k) ==
    files[k].contents.len > 0 /\ files[k].contents.len <= max_bytes

\* The filenames of the uploads before j that reached the name check.
NamesBefore(j) == {Filename(files[k]) : k \in {m \in 1..(j - 1) : ReachedNameCheck(m)}}

\* Upload k reaches the hashing step: it reaches the name check with a
\* filename no earlier upload brought there.
ReachedHashing(k) == ReachedNameCheck(k) /\ Filename(files[k]) \notin NamesBefore(k)

\* The content hashes of the uploads before j that reached the hashing step.
HashesBefore(j) ==
    {sha256_bytes(files[k].contents) : k \in {m \in 1..(j - 1) : ReachedHashing(m)}}

\* Upload k is passed to process_file.
Extracted(k) ==
    ReachedHashing(k) /\ sha256_bytes(files[k].contents) \notin HashesBefore(k)

\* C1: a batch within the ceiling is not rejected; the loop has appended one
\* item per upload it has passed, the i-th item carrying the i-th upload's
\* filename (f.filename or "document"); the returned result has one item per
\* upload.
C1_OneItemPerFileInOrder ==
    /\ (pc # "idle" /\ Len(files) <= MAX_DOCS_PER_BATCH) => Started
    /\ Started =>
        /\ Len(results) = next_file - 1
        /\ Len(results) <= Len(files)
        /\ \A i \in 1..Len(results) : results[i].filename = Filename(files[i])
    /\ pc = "done" => Len(results) = Len(files)

\* A returned batch of three distinct-named or repeated uploads whose items
\* are an error, a skipped duplicate and a response.
C1_Witness ==
    /\ pc = "done"
    /\ Len(files) = 3
    /\ \E i, j, k \in 1..3 :
        /\ results[i].error # None
        /\ results[j].skipped_duplicate
        /\ results[k].response # None
        /\ Filename(files[i]) # Filename(files[k])

\* seq without its i-th element.
RemoveAt(seq, i) == SubSeq(seq, 1, i - 1) \o SubSeq(seq, i + 1, Len(seq))

\* C2 as stated: in a returned batch, an upload whose extraction failed has an
\* error item, and every other upload has the item it gets in the same batch
\* with the failing upload removed.
C2_Original ==
    pc = "done" =>
        \A i \in 1..Len(files) :
            (Extracted(i) /\ results[i].error # None) =>
                LET without == batch_loop(RemoveAt(files, i), 1, "generic", zr,
                                          {}, {}, EmptyStore, denied)
                IN  \A j \in 1..Len(files) :
                        j # i => results[j] = without[IF j < i THEN j ELSE j - 1]

\* C2 amended: an upload whose extraction fails gets an error item and the
\* loop goes on to the end; every upload's item is the one the loop body gives
\* it from its own filename and bytes and from the filenames and content
\* hashes of the earlier uploads that passed the empty and size checks,
\* whether the extraction of any of those failed or succeeded. (The failing
\* upload keeps its filename and content hash in the seen sets, so a later
\* upload that repeats either is still skipped as a duplicate.)
C2_Amended ==
    Started =>
        /\ pc = "done" => Len(results) = Len(files)
        /\ \A j \in 1..Len(results) :
            /\ results[j] = batch_file(files[j], "generic", zr, NamesBefore(j),
                                       HashesBefore(j), EmptyStore, denied).item
            /\ (Extracted(j) /\ ~process_file(files[j].contents, Filename(files[j]),
                                              "generic", Some(zr), EmptyStore,
                                              denied, zr).ok)
                  => (results[j].error # None /\ results[j].response = None)

\* A returned batch where an extraction failed, a later upload repeats the
\* failing upload's content under another name and is skipped, and an upload
\* after that is extracted.
C2_Witness ==
    /\ pc = "done"
    /\ \E i, j, k \in 1..Len(files) :
        /\ i < j /\ j < k
        /\ Extracted(i) /\ results[i].error # None
        /\ files[j].contents = files[i].contents
        /\ results[j].reason = Some("duplicate_content_in_batch")
        /\ results[k].response # None

\* C3: the loop body, on an upload that is not empty, within the size ceiling
\* and named like an earlier upload that reached the name check, appends the
\* item skipped_duplicate = true, reason = "duplicate_filename_in_batch" with
\* no response and no error, and leaves seen_hashes and the upload directory
\* as they were, whatever the upload's content.
C3_DuplicateNameSkipped ==
    [][(/\ pc = "running"
        /\ next_file <= Len(files)
        /\ ReachedNameCheck(next_file)
        /\ Filename(files[next_file]) \in NamesBefore(next_file))
       => (/\ Len(results') = Len(results) + 1
           /\ SubSeq(results', 1, Len(results)) = results
           /\ results'[Len(results')].skipped_duplicate
           /\ results'[Len(results')].reason = Some("duplicate_filename_in_batch")
           /\ results'[Len(results')].response = None
           /\ results'[Len(results')].error = None
           /\ seen_hashes' = seen_hashes
           /\ store' = store)]_vars

\* An upload skipped for its filename whose content differs from the earlier
\* upload's and from every hash seen, in a batch that stores what it extracts.
C3_Witness ==
    /\ Started
    /\ ~zr
    /\ \E j \in 1..Len(results) :
        /\ results[j].reason = Some("duplicate_filename_in_batch")
        /\ sha256_bytes(files[j].contents) \notin seen_hashes
        /\ \E k \in 1..(j - 1) :
            /\ Filename(files[k]) = Filename(files[j])
            /\ files[k].contents # files[j].contents
            /\ results[k].response # None

\* C4: the loop body, on an upload that is not empty, within the size ceiling
\* and of a filename not seen: when its content hash is the hash of an earlier
\* upload that reached the hashing step, appends skipped_duplicate = true,
\* reason = "duplicate_content_in_batch", file_hash = that hash, and does not
\* extract; otherwise calls process_file on it, and the item and the upload
\* directory are what that call gives.
C4_DuplicateContentSkipped ==
    [][(/\ pc = "running"
        /\ next_file <= Len(files)
        /\ ReachedNameCheck(next_file)
        /\ Filename(files[next_file]) \notin NamesBefore(next_file))
       => LET f == files[next_file]
              h == sha256_bytes(f.contents)
              it == results'[Len(results')]
              r == process_file(f.contents, Filename(f), "generic", Some(zr),
                                store, denied, zr)
          IN  /\ Len(results') = Len(results) + 1
              /\ SubSeq(results', 1, Len(results)) = results
              /\ IF h \in HashesBefore(next_file)
                 THEN /\ it.skipped_duplicate
                      /\ it.reason = Some("duplicate_content_in_batch")
                      /\ it.file_hash = h
                      /\ it.response = None
                      /\ it.error = None
                      /\ store' = store
                 ELSE /\ ~it.skipped_duplicate
                      /\ it.reason = None
                      /\ it.response = r.response
                      /\ it.error = r.error
                      /\ store' = r.store]_vars

\* An upload skipped for its content, which an earlier upload of another
\* filename brought and had extracted, followed by an upload of unseen
\* filename and content, which is passed to process_file.
C4_Witness ==
    /\ Started
    /\ \E j, k \in 1..Len(results) :
        /\ j < k
        /\ results[j].reason = Some("duplicate_content_in_batch")
        /\ results[j].file_hash = sha256_bytes(files[j].contents)
        /\ \E m \in 1..(j - 1) :
            /\ files[m].contents = files[j].contents
            /\ Filename(files[m]) # Filename(files[j])
            /\ results[m].response # None
        /\ Extracted(k)
        /\ ~results[k].skipped_duplicate

\* C5: a request of more uploads than the ceiling is rejected before the loop:
\* no item, no name or hash seen, the upload directory as it was; a request of
\* at most the ceiling starts the loop, and nothing the loop meets rejects the
\* batch.
C5_OverCeilingRejected ==
    /\ [](pc = "rejected" =>
            /\ Len(files) > MAX_DOCS_PER_BATCH
            /\ results = <<>> /\ seen_names = {} /\ seen_hashes = {}
            /\ next_file = 1)
    /\ [][(pc = "idle" /\ pc' # "idle") =>
            /\ store' = store
            /\ pc' = IF Len(files') > MAX_DOCS_PER_BATCH THEN "rejected" ELSE "running"]_vars
    /\ [][pc = "running" => pc' \in {"running", "done"}]_vars
    /\ [][pc = "rejected" => (pc' = "rejected" /\ store' = store)]_vars

\* A rejected request of one upload more than the ceiling, in which an upload
\* would have been stored.
C5_Witness ==
    /\ pc = "rejected"
    /\ Len(files) = MAX_DOCS_PER_BATCH + 1
    /\ ~zr
    /\ \E k \in 1..Len(files) :
        /\ Extracted(k)
        /\ process_file(files[k].contents, Filename(files[k]), "generic",
                        Some(zr), store, denied, zr).store # store

\* C9: every item carries the upload's filename; its file_hash is the content
\* hash when the hashing step was reached for the upload (duplicate content,
\* successful extraction, failed extraction) and the empty string exactly when
\* it was not (empty, oversized, duplicate filename).
C9_FileHashWhenHashed ==
    Started =>
        \A j \in 1..Len(results) :
            /\ results[j].filename = Filename(files[j])
            /\ results[j].file_hash = IF ReachedHashing(j)
                                      THEN sha256_bytes(files[j].contents)
                                      ELSE <<>>

-----------------------------------------------------------------------------
(* Claims on parse_bool (SpecParse) *)

C10_Truthy == {<<"1">>, <<"t", "r", "u", "e">>, <<"y", "e", "s">>, <<"y">>,
               <<"o", "n">>}

\* C10 as stated: the flag is true when the token, trimmed and lowered, is one
\* of 1, true, yes, y, on, and the configured default when the token is absent
\* or anything else.
C10_Original ==
    pc = "parsed" =>
        zr = IF zero_retention # None /\ Lower(Strip(zero_retention[1])) \in C10_Truthy
             THEN TRUE
             ELSE ZERO_RETENTION_DEFAULT

\* C10 amended: the flag is the configured default only when the token is
\* absent; for a token that is present it is true when the token, trimmed and
\* lowered, is one of 1, true, yes, y, on, and false for any other token,
\* whatever the default.
C10_Amended ==
    pc = "parsed" =>
        zr = IF zero_retention = None
             THEN ZERO_RETENTION_DEFAULT
             ELSE Lower(Strip(zero_retention[1])) \in C10_Truthy

\* An unrecognized, non-empty token parsed to false under the default true.
C10_Witness ==
    /\ pc = "parsed"
    /\ ZERO_RETENTION_DEFAULT
    /\ zero_retention # None
    /\ Strip(zero_retention[1]) # <<>>
    /\ Lower(Strip(zero_retention[1])) \notin C10_Truthy
    /\ ~zr

-----------------------------------------------------------------------------
(* Claims on process_file and the retention store (SpecStore) *)

\* The state part of C6: the blob under a path is decided by the most recent
\* successful run that targeted the path.
C6_BlobOfMostRecentRun ==
    \A p \in StorePaths :
        recent[p] # None =>
            store[p] = IF recent[p][1].zero_retention
                       THEN None
                       ELSE Some(recent[p][1].file_bytes)

\* The frame part of C6: a step changes the blob of a path only when a
\* successful run targeted that path.
C6_OtherBlobsUnchanged ==
    \A p \in StorePaths :
        store'[p] # store[p] => (recent'[p] # None /\ recent'[p] # recent[p])

\* C6 as stated: after any sequence of successful process_file runs, each
\* sanitized name holds the bytes of the most recent run that targeted it when
\* that run had zero_retention = false, no blob when it had
\* zero_retention = true, and the blobs under other names are unchanged.
C6_Original == []C6_BlobOfMostRecentRun /\ [][C6_OtherBlobsUnchanged]_vars

\* C6 amended: as C6, but a zero-retention run leaves no blob only when its
\* unlink did not fail; delete_if_exists swallows a failed unlink, the run
\* still succeeds and the blob that was there stays.
C6_Amended ==
    /\ [](\A p \in StorePaths :
            recent[p] # None =>
                /\ ~recent[p][1].zero_retention
                      => store[p] = Some(recent[p][1].file_bytes)
                /\ (recent[p][1].zero_retention /\ ~recent[p][1].unlink_failed)
                      => store[p] = None)
    /\ [][C6_OtherBlobsUnchanged]_vars

\* The most recent successful run on a path was a zero-retention run made
\* under a filename that sanitizes to that path; its unlink did not fail, the
\* path holds no blob, and the blob under another name is still there.
C6_Witness ==
    LET p == sanitize_filename(Str_d_bad_docx)
        q == sanitize_filename(Str_c_xyz)
    IN  /\ p = sanitize_filename(Str_a_docx)
        /\ p # q
        /\ last.called /\ last.ok /\ last.filename = Str_d_bad_docx
        /\ recent[p] # None
        /\ recent[p][1].zero_retention /\ ~recent[p][1].unlink_failed
        /\ store[p] = None
        /\ recent[q] = None
        /\ store[q] = Some(BytesZ)

\* C7: whenever the format extractor succeeds (a supported extension and
\* decodable bytes), process_file returns a result with the extractor's pages
\* and their join, whether or not the store operation failed.
C7_StoreFailureDoesNotFailExtraction ==
    (last.called /\ Supported(Ext(last.filename)) /\ ~last.file_bytes.corrupt) =>
        /\ last.ok
        /\ last.response # None
        /\ last.response[1].pages = Extract(Ext(last.filename), last.file_bytes)
        /\ last.response[1].full_text =
              Join("\n\n", [i \in 1..Len(last.response[1].pages) |->
                               last.response[1].pages[i].text])

\* The extensions C8 lists.
C8_Listed == {<<"p", "d", "f">>, <<"j", "p", "g">>, <<"j", "p", "e", "g">>,
              <<"p", "n", "g">>, <<"b", "m", "p">>, <<"t", "i", "f">>,
              <<"t", "i", "f", "f">>, <<"d", "o", "c", "x">>}

C8_Unlisted(filename) ==
    \/ "." \notin Range(filename)
    \/ Lower(AfterLast(filename, ".")) \notin C8_Listed

C8_Named(filename) ==
    IF "." \notin Range(filename) \/ AfterLast(filename, ".") = <<>>
    THEN Str_unknown
    ELSE Lower(AfterLast(filename, "."))

\* C8: a process_file call on a filename whose extension is not listed (or
\* that has no ".") fails with the unsupported-format error naming the
\* extension (or "unknown"), and the step leaves the upload directory as it
\* was, under both values of the retention flag.
C8_UnsupportedLeavesStore ==
    /\ []((last.called /\ C8_Unlisted(last.filename)) =>
            /\ ~last.ok
            /\ last.response = None
            /\ last.error = Some(<<"Unsupported file type: .">>
                                 \o C8_Named(last.filename)))
    /\ [][(last'.called /\ C8_Unlisted(last'.filename) /\ denied' = denied)
            => store' = store]_vars

\* An unsupported call under zero retention, made while a blob exists under
\* its sanitized name; the blob is still there.
C8_Witness ==
    /\ last.called
    /\ C8_Unlisted(last.filename)
    /\ last.zero_retention = Some(TRUE)
    /\ store[sanitize_filename(last.filename)] # None

=============================================================================
